---- MODULE Spec2Model ----
(***************************************************************************)
(* Model of the EMLE tutorial notebooks ADP.ipynb and AbyU2.ipynb: the     *)
(* restraint construction, the OpenMM context set-up, the production       *)
(* sampling loops and the RMSE error analysis.                             *)
(*                                                                         *)
(* Numbers are exact rationals [num, den] (den > 0, lowest terms), so that *)
(* 2.5 Angstrom = 0.25 nm and 125 * 4.184 * 100 are computed, not assumed. *)
(* Positions are terms [base, steps]: the coordinate set `base` advanced   *)
(* by `steps` integration steps (the integrator is an uninterpreted        *)
(* function of the positions it starts from).                              *)
(***************************************************************************)
EXTENDS Integers, Sequences, FiniteSets, TLC

VARIABLES
    nb,               \* the notebook being run
    pc,               \* the statement about to execute
    exc,              \* the statement whose call raised ("none" when none did)
    mols,             \* the loaded molecular system
    engine,           \* the engine bound to the calculator: its region
    selection,        \* the atoms last selected by a search string
    shell,            \* ADP: the bash process of the AMBER cell
    server,           \* ADP: the emle-server process
    sander,           \* ADP: the sander process
    distances,        \* AbyU: tuple of (atom1, atom2, weight)
    k,                \* AbyU: force constant as the notebook holds it
    r0,               \* AbyU: target distance as the notebook holds it
    cv,               \* AbyU: CustomBondForce("weight*r"), its bonds
    restraint_force,  \* AbyU: CustomCVForce
    omm_system,       \* forces of the OpenMM system
    context,          \* the context of the dynamics object
    integrator,       \* the copied integrator
    new_context,      \* the context built by the notebook
    file_handle,      \* the trajectory file
    dcd_file,         \* the DCD writer: the frames written so far
    x,                \* the sampling loop's counter
    positions,        \* the positions last queried
    energy,           \* restraint component: last energy evaluated
    lastSet,          \* the value last passed to setParameter, per name
    call,             \* analysis component: last get_rmse call and its result
    data,             \* analysis component: the loaded .mat table
    errors            \* analysis component: what get_errors computed

vars == <<nb, pc, exc, mols, engine, selection, shell, server, sander,
          distances, k, r0, cv, restraint_force, omm_system,
          context, integrator, new_context, file_handle, dcd_file, x,
          positions, energy, lastSet, call, data, errors>>

regionVars == <<engine, selection>>
amberVars == <<shell, server, sander>>
restraintVars == <<distances, k, r0, cv, restraint_force>>
contextVars == <<omm_system, context, integrator, new_context>>
fileVars == <<file_handle, dcd_file, x, positions>>
analysisVars == <<call, data, errors>>
evalVars == <<energy, lastSet>>

----------------------------------------------------------------------------
(* Exact rational arithmetic.                                              *)

Abs(i) == IF i < 0 THEN -i ELSE i

RECURSIVE GCD(_, _)
GCD(a, b) == IF b = 0 THEN a ELSE GCD(b, a % b)

Rat(n, d) ==
    LET g == GCD(Abs(n), Abs(d))
        s == IF d < 0 THEN -1 ELSE 1
    IN  [num |-> (s * n) \div g, den |-> (s * d) \div g]

RInt(i) == [num |-> i, den |-> 1]
RAdd(p, q) == Rat(p.num * q.den + q.num * p.den, p.den * q.den)
RSub(p, q) == Rat(p.num * q.den - q.num * p.den, p.den * q.den)
RMul(p, q) == Rat(p.num * q.num, p.den * q.den)
RDiv(p, q) == Rat(p.num * q.den, p.den * q.num)
RLess(p, q) == p.num * q.den < q.num * p.den
RAbs(p) == [num |-> Abs(p.num), den |-> p.den]
RZero == RInt(0)

----------------------------------------------------------------------------
(* openmm.unit: a unit is its scale to the MD unit system (kJ/mol, nm)     *)
(* and its dimension (exponents of energy and of length).                  *)

Unit(scale, e, l) == [scale |-> scale, energy |-> e, length |-> l]

kilojoule_per_mole == Unit(RInt(1), 1, 0)
kilocalorie_per_mole == Unit(Rat(4184, 1000), 1, 0)
nanometer == Unit(RInt(1), 0, 1)
angstrom == Unit(Rat(1, 10), 0, 1)

UnitDiv(u, v) ==
    Unit(RDiv(u.scale, v.scale), u.energy - v.energy, u.length - v.length)
UnitSquare(u) == Unit(RMul(u.scale, u.scale), 2 * u.energy, 2 * u.length)

\* A Python value handed to OpenMM: a bare number or a Quantity.
Bare(v) == [quantity |-> FALSE, value |-> v, unit |-> Unit(RInt(1), 0, 0)]
Quantity(v, u) == [quantity |-> TRUE, value |-> v, unit |-> u]

\* Quantity.value_in_unit(u): the bare number, rescaled.
value_in_unit(q, u) == Bare(RDiv(RMul(q.value, q.unit.scale), u.scale))

\* What the OpenMM wrappers do to a double argument: a Quantity is converted
\* to the MD unit system, a bare number is taken as it is.
StripUnits(a) ==
    IF a.quantity THEN RMul(a.value, a.unit.scale) ELSE a.value

----------------------------------------------------------------------------
(* The notebooks and their configuration literals.                         *)

Notebooks == {"ADP", "AbyU_QMMM", "AbyU"}
AbyUNotebooks == {"AbyU_QMMM", "AbyU"}

K_QMMM == 125
K_MLMM == 100
WRITES_ADP == 500
STEPS_ADP == 10
WRITES_ABYU == 300
STEPS_ABYU == 1

KLiteral(n) == IF n = "AbyU_QMMM" THEN K_QMMM ELSE K_MLMM
M(n) == IF n = "ADP" THEN WRITES_ADP ELSE WRITES_ABYU
S(n) == IF n = "ADP" THEN STEPS_ADP ELSE STEPS_ABYU

Triple(a1, a2, w) == [atom1 |-> a1, atom2 |-> a2, weight |-> w]

\* distances = ((2125, 2094, 0.7), (2119, 2087, 0.3))
distances_literal ==
    <<Triple(2125, 2094, Rat(7, 10)), Triple(2119, 2087, Rat(3, 10))>>

\* k = (K*unit.kilocalorie_per_mole/unit.angstrom**2).value_in_unit(
\*         unit.kilojoule_per_mole/unit.nanometer**2)
k_unconverted(lit) == Bare(RInt(lit))
k_literal(lit) ==
    value_in_unit(
        Quantity(RInt(lit), UnitDiv(kilocalorie_per_mole, UnitSquare(angstrom))),
        UnitDiv(kilojoule_per_mole, UnitSquare(nanometer)))

\* r0 = 2.5*unit.angstroms
r0_bare == Bare(Rat(25, 10))
r0_literal == Quantity(Rat(25, 10), angstrom)

energy_expression == "k*(weighted_distance - r0)^2"

----------------------------------------------------------------------------
(* openmm.CustomBondForce and openmm.CustomCVForce.                        *)

RSquare(p) == RMul(p, p)

\* Lepton evaluation of the two expressions the notebooks use; the
\* variables are looked up by name in env.
Evaluate_linear(expr, env) ==
    IF expr = "weight*r"
    THEN RMul(env["weight"], env["r"])
    ELSE RMul(env["k"], RSub(env["weighted_distance"], env["r0"]))
Evaluate(expr, env) ==
    IF expr = "weight*r"
    THEN RMul(env["weight"], env["r"])
    ELSE RMul(env["k"], RSquare(RSub(env["weighted_distance"], env["r0"])))

CustomBondForce(expr) == [expression |-> expr, perBond |-> <<>>, bonds |-> <<>>]
addPerBondParameter(f, name) == [f EXCEPT !.perBond = Append(@, name)]

addBond_unweighted(f, a1, a2, params) ==
    [f EXCEPT !.bonds = Append(@, [atom1 |-> a1, atom2 |-> a2,
                                   parameters |-> <<RInt(1)>>])]
addBond(f, a1, a2, params) ==
    [f EXCEPT !.bonds = Append(@, [atom1 |-> a1, atom2 |-> a2,
                                   parameters |-> params])]

\* Energy of a CustomBondForce: the sum of its expression over its bonds,
\* r[<<a1, a2>>] being the distance between atoms a1 and a2.
RECURSIVE BondSum(_, _, _)
BondSum(f, r, n) ==
    IF n = 0 THEN RZero
    ELSE LET b == f.bonds[n]
             env == [v \in {"weight", "r"} |->
                        IF v = "r" THEN r[<<b.atom1, b.atom2>>]
                        ELSE b.parameters[1]]
         IN  RAdd(BondSum(f, r, n - 1), Evaluate(f.expression, env))

BondForceEnergy(f, r) == BondSum(f, r, Len(f.bonds))

NoForce == [kind |-> "none", expression |-> "", cvname |-> "",
            cv |-> CustomBondForce(""), globals |-> <<>>]

CustomCVForce(expr) == [NoForce EXCEPT !.kind = "CustomCVForce", !.expression = expr]
addCollectiveVariable(f, name, variable) ==
    [f EXCEPT !.cvname = name, !.cv = variable]
\* globals: the (name, default value) pairs in the order they were added
addGlobalParameter(f, name, defaultValue) ==
    [f EXCEPT !.globals = Append(@, [name |-> name,
                                     value |-> StripUnits(defaultValue)])]

\* Energy of a CustomCVForce under the context parameters params.
CVForceEnergy(f, params, r) ==
    LET wd == BondForceEnergy(f.cv, r)
        env == [v \in {"k", "r0", "weighted_distance"} |->
                   IF v = "weighted_distance" THEN wd ELSE params[v]]
    IN  Evaluate(f.expression, env)

\* The atom pairs whose distance a force reads.
PairsOf(f) == {<<f.cv.bonds[i].atom1, f.cv.bonds[i].atom2>> :
                  i \in 1..Len(f.cv.bonds)}

----------------------------------------------------------------------------
(* openmm.System, openmm.Context.                                          *)

BaseForces == <<[NoForce EXCEPT !.kind = "forcefield"],
                [NoForce EXCEPT !.kind = "EMLEForce"]>>

addForce_dropped(system, force) == system
addForce(system, force) == Append(system, force)

\* The global parameters a context starts with: the defaults registered by
\* the forces of its system.
RECURSIVE ForceGlobals(_, _)
ForceGlobals(gl, n) ==
    IF n = 0 THEN <<>>
    ELSE (gl[n].name :> gl[n].value) @@ ForceGlobals(gl, n - 1)

RECURSIVE SystemGlobals(_, _)
SystemGlobals(system, n) ==
    IF n = 0 THEN <<>>
    ELSE ForceGlobals(system[n].globals, Len(system[n].globals))
         @@ SystemGlobals(system, n - 1)

Unset == [base |-> 0, steps |-> 0]
NoContext == [exists |-> FALSE, system |-> <<>>, parameters |-> <<>>,
              positions |-> Unset, stepCount |-> 0]

Context_base(system) ==
    [exists |-> TRUE, system |-> BaseForces,
     parameters |-> SystemGlobals(BaseForces, Len(BaseForces)),
     positions |-> Unset, stepCount |-> 0]
Context(system) ==
    [exists |-> TRUE, system |-> system,
     parameters |-> SystemGlobals(system, Len(system)),
     positions |-> Unset, stepCount |-> 0]

setParameter_all(ctx, name, value) ==
    [ctx EXCEPT !.parameters =
        [n \in DOMAIN ctx.parameters |-> StripUnits(value)]]
setParameter(ctx, name, value) ==
    [ctx EXCEPT !.parameters[name] = StripUnits(value)]

setPositions_ignored(ctx, p) == ctx
setPositions(ctx, p) == [ctx EXCEPT !.positions = p]

\* integrator.step(n) on the context the integrator is bound to
step_single(ctx, n) ==
    [ctx EXCEPT !.positions.steps = @ + 1, !.stepCount = @ + 1]
step(ctx, n) ==
    [ctx EXCEPT !.positions.steps = @ + n, !.stepCount = @ + n]

----------------------------------------------------------------------------
(* Atom selection.  A search string is a sequence of characters; the       *)
(* system is the sequence of its atoms in file order, the atom at position *)
(* p having index p - 1 (the engine's particle index) and number p.        *)

Digits == <<"0", "1", "2", "3", "4", "5", "6", "7", "8", "9">>
IsDigit(c) == \E i \in 1..10 : Digits[i] = c
DigitVal(c) == (CHOOSE i \in 1..10 : Digits[i] = c) - 1

IsNumber(s) == Len(s) > 0 /\ \A i \in 1..Len(s) : IsDigit(s[i])

RECURSIVE ParseInt(_)
ParseInt(s) ==
    IF Len(s) = 0 THEN 0
    ELSE 10 * ParseInt(SubSeq(s, 1, Len(s) - 1)) + DigitVal(s[Len(s)])

\* the pieces of s between the occurrences of sep
RECURSIVE Split(_, _)
Split(s, sep) ==
    IF \A i \in 1..Len(s) : s[i] # sep THEN <<s>>
    ELSE LET i == CHOOSE j \in 1..Len(s) :
                      s[j] = sep /\ \A h \in 1..(j - 1) : s[h] # sep
         IN  <<SubSeq(s, 1, i - 1)>> \o Split(SubSeq(s, i + 1, Len(s)), sep)

\* AbyU2.ipynb 162, 292: "atomnum 1804:1822,2083:2132"
REGION ==
    <<"a", "t", "o", "m", "n", "u", "m", " ",
      "1", "8", "0", "4", ":", "1", "8", "2", "2", ",",
      "2", "0", "8", "3", ":", "2", "1", "3", "2">>

Keyword == <<"a", "t", "o", "m", "n", "u", "m", " ">>

\* one item of the list after the keyword: a number, or first:last
ParseItem(item) ==
    LET p == Split(item, ":")
    IN  IF Len(p) = 1 /\ IsNumber(p[1])
        THEN [ok |-> TRUE, first |-> ParseInt(p[1]), last |-> ParseInt(p[1])]
        ELSE IF Len(p) = 2 /\ IsNumber(p[1]) /\ IsNumber(p[2])
        THEN [ok |-> TRUE, first |-> ParseInt(p[1]), last |-> ParseInt(p[2])]
        ELSE [ok |-> FALSE, first |-> 0, last |-> 0]

\* the search string parsed: the keyword, then a comma-separated list
parse(s) ==
    IF Len(s) > Len(Keyword) /\ SubSeq(s, 1, Len(Keyword)) = Keyword
    THEN LET items == Split(SubSeq(s, Len(Keyword) + 1, Len(s)), ",")
         IN  [ok |-> \A i \in 1..Len(items) : ParseItem(items[i]).ok,
              ranges |-> [i \in 1..Len(items) |-> ParseItem(items[i])]]
    ELSE [ok |-> FALSE, ranges |-> <<>>]

\* a range of atom numbers holds both its ends
InRange_halfopen(v, r) == r.first <= v /\ v < r.last
InRange(v, r) == r.first <= v /\ v <= r.last

Matches_first(v, ranges) == Len(ranges) > 0 /\ InRange(v, ranges[1])
Matches(v, ranges) == \E i \in 1..Len(ranges) : InRange(v, ranges[i])

Atom(p) == [idx |-> p - 1, num |-> p]
Atoms(n) == [p \in 1..n |-> Atom(p)]

\* atoms[search string]: the atoms that match, in the order of the system;
\* a string that does not parse, or that no atom matches, raises
select(atoms, s) ==
    LET q == parse(s)
        found == IF q.ok
                 THEN SelectSeq(atoms, LAMBDA a : Matches(a.num, q.ranges))
                 ELSE <<>>
    IN  [raised |-> found = <<>>, atoms |-> found]

\* sr.qm.emle(mols, region, calculator): the engine bound to the region,
\* which is a search string or one molecule of the system (whose atoms the
\* topology file decides)
StringRegion(s) == [kind |-> "search", string |-> s, index |-> 0]
MoleculeRegion(i) == [kind |-> "molecule", string |-> <<>>, index |-> i]

emle(m, region) ==
    IF region.kind = "search"
    THEN LET sel == select(Atoms(m.natoms), region.string)
         IN  [bound |-> ~sel.raised, kind |-> "search", index |-> 0,
              atoms |-> sel.atoms]
    ELSE [bound |-> TRUE, kind |-> "molecule", index |-> region.index,
          atoms |-> <<>>]

\* ADP.ipynb 115, AbyU2.ipynb 162, 402
Region(n) ==
    IF n = "ADP" THEN MoleculeRegion(0)
    ELSE IF n = "AbyU_QMMM" THEN StringRegion(REGION)
    ELSE MoleculeRegion(1)

NoEngine == [bound |-> FALSE, kind |-> "none", index |-> 0, atoms |-> <<>>]
NoSelection ==
    [done |-> FALSE, string |-> <<>>, natoms |-> 0, raised |-> FALSE,
     atoms |-> <<>>]

\* The system files hold at least the atoms the notebook names.
MIN_ATOMS == 2132
MaxExtraAtoms == 1
SystemSizes == (MIN_ATOMS + 1)..(MIN_ATOMS + MaxExtraAtoms)

----------------------------------------------------------------------------
(* The notebook run: one action per statement, in cell order.              *)

NumCoords == 2
Coords == 1..NumCoords

NoShell == [cwd |-> <<>>, output |-> FALSE, removed |-> <<>>, status |-> 0,
            failed |-> "none"]
NoSander == [state |-> "off", nstlim |-> 0, step |-> 0]
MaxMdSteps == 2

NoMols == [coords |-> 0, natoms |-> 0]
NoIntegrator == [copied |-> FALSE, context |-> "none"]
NoDcd == [created |-> FALSE, frames |-> <<>>]
NoEnergy == [evaluated |-> FALSE, r |-> <<>>, value |-> RZero]
NeverSet == [n \in {"k", "r0"} |-> [set |-> FALSE, value |-> Bare(RZero)]]
NoCall == [called |-> FALSE, a |-> <<>>, b |-> <<>>, result |-> [kind |-> "none"]]
NoData == [loaded |-> FALSE]
NoErrors == [computed |-> FALSE]

FirstStatement_load(n) == IF n = "ADP" THEN "amber" ELSE "load"
FirstStatement(n) == IF n = "ADP" THEN "amber" ELSE "restraint_params"

Init ==
    /\ nb \in Notebooks
    /\ pc = FirstStatement(nb)
    /\ exc = "none"
    /\ mols = NoMols
    /\ engine = NoEngine
    /\ selection = NoSelection
    /\ shell = NoShell
    /\ server = "off"
    /\ sander = NoSander
    /\ distances = <<>>
    /\ k = Bare(RZero)
    /\ r0 = Bare(RZero)
    /\ cv = CustomBondForce("")
    /\ restraint_force = NoForce
    /\ omm_system = <<>>
    /\ context = NoContext
    /\ integrator = NoIntegrator
    /\ new_context = NoContext
    /\ file_handle = "none"
    /\ dcd_file = NoDcd
    /\ x = 0
    /\ positions = Unset
    /\ energy = NoEnergy
    /\ lastSet = NeverSet
    /\ call = NoCall
    /\ data = NoData
    /\ errors = NoErrors

\* A statement that only moves on.
Goto(from, to) ==
    /\ pc = from
    /\ pc' = to

\* AbyU2.ipynb 62-64
RestraintParams ==
    /\ Goto("restraint_params", "cv_create")
    /\ distances' = distances_literal
    /\ k' = k_literal(KLiteral(nb))
    /\ r0' = r0_literal
    /\ UNCHANGED <<nb, amberVars, exc, mols, regionVars, cv, restraint_force,
                   contextVars, fileVars, evalVars, analysisVars>>

\* AbyU2.ipynb 66-67
CreateCV ==
    /\ Goto("cv_create", "cv_addBond")
    /\ cv' = addPerBondParameter(CustomBondForce("weight*r"), "weight")
    /\ UNCHANGED <<nb, amberVars, exc, mols, regionVars, distances, k, r0,
                   restraint_force, contextVars, fileVars, evalVars,
                   analysisVars>>

\* AbyU2.ipynb 69-70: one iteration of `for atom1, atom2, weight in distances`
AddBond ==
    /\ pc = "cv_addBond"
    /\ Len(cv.bonds) < Len(distances)
    /\ LET t == distances[Len(cv.bonds) + 1]
       IN  cv' = addBond(cv, t.atom1, t.atom2, <<t.weight>>)
    /\ UNCHANGED <<nb, amberVars, pc, exc, mols, regionVars, distances, k,
                   r0, restraint_force, contextVars, fileVars, evalVars,
                   analysisVars>>

\* AbyU2.ipynb 72-76, once the loop over distances is exhausted
CreateRestraintForce ==
    /\ pc = "cv_addBond"
    /\ Len(cv.bonds) = Len(distances)
    /\ pc' = "load"
    /\ restraint_force' =
           addGlobalParameter(
               addGlobalParameter(
                   addCollectiveVariable(CustomCVForce(energy_expression),
                                         "weighted_distance", cv),
                   "k", k),
               "r0", r0)
    /\ UNCHANGED <<nb, amberVars, exc, mols, regionVars, distances, k, r0,
                   cv, contextVars, fileVars, evalVars, analysisVars>>

\* ADP.ipynb 27-50: the AMBER run of the first cell, a bash script.  The
\* shell runs its commands in turn whatever their exit status; a command
\* ended by & is started and not waited for.
AmberVars(to) ==
    /\ nb = "ADP"
    /\ pc' = to
    /\ UNCHANGED <<nb, exc, mols, regionVars, restraintVars, contextVars,
                   fileVars, evalVars, analysisVars>>

\* the exit status of a command: the first one that fails is remembered
Status(sh, cmd, ok) ==
    [sh EXCEPT !.status = IF ok THEN 0 ELSE 1,
               !.failed = IF ~ok /\ @ = "none" THEN cmd ELSE @]

\* cd dir: succeeds when the directory exists
cd(sh, dir, ok) ==
    Status(IF ok THEN [sh EXCEPT !.cwd = Append(@, dir)] ELSE sh, "cd", ok)

\* cd ..
Parent(path) ==
    IF path # <<>> /\ path[Len(path)] # ".."
    THEN SubSeq(path, 1, Len(path) - 1)
    ELSE Append(path, "..")

\* ADP.ipynb 29: cd ADP_AMBER
AmberCd ==
    /\ pc = "amber"
    /\ AmberVars("amber_assign")
    /\ \E ok \in BOOLEAN : shell' = cd(shell, "ADP_AMBER", ok)
    /\ UNCHANGED <<server, sander>>

\* ADP.ipynb 31-32: PARM=adp.parm7, CRD=adp.rst7
AmberAssign ==
    /\ pc = "amber_assign"
    /\ AmberVars("amber_rm")
    /\ shell' = Status(shell, "assign", TRUE)
    /\ UNCHANGED <<server, sander>>

\* ADP.ipynb 35: rm -rf output, in whatever directory the shell is in
AmberRm ==
    /\ pc = "amber_rm"
    /\ AmberVars("amber_mkdir")
    /\ shell' = Status([shell EXCEPT !.output = FALSE,
                                     !.removed = Append(shell.cwd, "output")],
                       "rm", TRUE)
    /\ UNCHANGED <<server, sander>>

\* ADP.ipynb 36: mkdir output
AmberMkdir ==
    /\ pc = "amber_mkdir"
    /\ AmberVars("amber_cd_output")
    /\ \E ok \in BOOLEAN :
           shell' = Status([shell EXCEPT !.output = ok], "mkdir", ok)
    /\ UNCHANGED <<server, sander>>

\* ADP.ipynb 39: cd output
AmberCdOutput ==
    /\ pc = "amber_cd_output"
    /\ AmberVars("amber_server")
    /\ shell' = cd(shell, "output", shell.output)
    /\ UNCHANGED <<server, sander>>

\* ADP.ipynb 42: emle-server > server_log.txt 2>&1 &
AmberServer ==
    /\ pc = "amber_server"
    /\ AmberVars("amber_sander")
    /\ server' = "starting"
    /\ shell' = Status(shell, "emle-server", TRUE)
    /\ UNCHANGED sander

\* the server has loaded its models and listens
ServerReady ==
    /\ server = "starting"
    /\ server' = "up"
    /\ UNCHANGED <<nb, pc, exc, mols, regionVars, shell, sander,
                   restraintVars, contextVars, fileVars, evalVars,
                   analysisVars>>

\* ADP.ipynb 45: sander ... -i ../emle.in -p ../adp.parm7 -c ../adp.rst7 in
\* the foreground; without its input files it exits at once
AmberSander ==
    /\ pc = "amber_sander"
    /\ IF shell.cwd = <<"ADP_AMBER", "output">>
       THEN /\ AmberVars("amber_sander_wait")
            /\ \E n \in 1..MaxMdSteps :
                   sander' = [state |-> "running", nstlim |-> n, step |-> 0]
            /\ UNCHANGED shell
       ELSE /\ AmberVars("amber_stop")
            /\ sander' = [sander EXCEPT !.state = "exited"]
            /\ shell' = Status(shell, "sander", FALSE)
    /\ UNCHANGED server

\* sander sends the ML region to the server, once per step
SanderRequest ==
    /\ pc = "amber_sander_wait"
    /\ sander.state = "running"
    /\ sander.step < sander.nstlim
    /\ AmberVars(pc)
    /\ sander' = [sander EXCEPT !.state = "requesting"]
    /\ UNCHANGED <<shell, server>>

\* the server answers the request
ServerAnswer ==
    /\ pc = "amber_sander_wait"
    /\ sander.state = "requesting"
    /\ server = "up"
    /\ AmberVars(pc)
    /\ sander' = [sander EXCEPT !.state = "running", !.step = @ + 1]
    /\ UNCHANGED <<shell, server>>

\* nothing answers the request: sander stops with an error
RequestFails ==
    /\ pc = "amber_sander_wait"
    /\ sander.state = "requesting"
    /\ server # "up"
    /\ AmberVars("amber_stop")
    /\ sander' = [sander EXCEPT !.state = "exited"]
    /\ shell' = Status(shell, "sander", FALSE)
    /\ UNCHANGED server

\* sander has run its steps
SanderExit ==
    /\ pc = "amber_sander_wait"
    /\ sander.state = "running"
    /\ sander.step = sander.nstlim
    /\ AmberVars("amber_stop")
    /\ sander' = [sander EXCEPT !.state = "exited"]
    /\ shell' = Status(shell, "sander", TRUE)
    /\ UNCHANGED server

\* ADP.ipynb 48: emle-stop
AmberStop ==
    /\ pc = "amber_stop"
    /\ AmberVars("amber_cd_back")
    /\ server' = "stopped"
    /\ shell' = Status(shell, "emle-stop", TRUE)
    /\ UNCHANGED sander

\* ADP.ipynb 50: cd ../.. ends the script, whose exit status is that of
\* this last command; the shell and its foreground job are gone
AmberCdBack ==
    /\ pc = "amber_cd_back"
    /\ LET sh == Status([shell EXCEPT !.cwd = Parent(Parent(@))], "cd", TRUE)
       IN  /\ AmberVars(IF sh.status = 0 THEN "load" ELSE "raised")
           /\ shell' = NoShell
    /\ sander' = NoSander
    /\ UNCHANGED server

\* ADP.ipynb 90-92, AbyU2.ipynb 152-162: load the system (and, in AbyU,
\* create the calculator and bind the engine)
Load ==
    /\ pc = "load"
    /\ pc' = IF nb = "ADP" THEN "calculator" ELSE "dynamics"
    /\ \E c \in Coords, n \in SystemSizes :
           mols' = [coords |-> c, natoms |-> n]
    /\ engine' = IF nb = "ADP" THEN engine ELSE emle(mols', Region(nb))
    /\ UNCHANGED <<nb, amberVars, exc, selection, restraintVars, contextVars,
                   fileVars, evalVars, analysisVars>>

\* ADP.ipynb 114-115
Calculator ==
    /\ nb = "ADP"
    /\ Goto("calculator", "dynamics")
    /\ engine' = emle(mols, Region(nb))
    /\ UNCHANGED <<nb, amberVars, exc, mols, selection, restraintVars,
                   contextVars, fileVars, evalVars, analysisVars>>

\* ADP.ipynb 137-142, AbyU2.ipynb 173-181: the dynamics object and its
\* context, holding the loaded coordinates
Dynamics ==
    /\ Goto("dynamics", "get_context")
    /\ context' = setPositions(Context(BaseForces),
                               [base |-> mols.coords, steps |-> 0])
    /\ UNCHANGED <<nb, amberVars, exc, mols, regionVars, restraintVars,
                   omm_system, integrator, new_context, fileVars, evalVars,
                   analysisVars>>

\* ADP.ipynb 153-155, AbyU2.ipynb 192-198: the system of the context and a
\* copy of its integrator (bound to no context yet)
GetContext ==
    /\ pc = "get_context"
    /\ pc' = IF nb = "ADP" THEN "new_context" ELSE "addForce"
    /\ omm_system' = context.system
    /\ integrator' = [copied |-> TRUE, context |-> "none"]
    /\ UNCHANGED <<nb, amberVars, exc, mols, regionVars, restraintVars,
                   context, new_context, fileVars, evalVars, analysisVars>>

\* AbyU2.ipynb 201
AddForce ==
    /\ nb \in AbyUNotebooks
    /\ Goto("addForce", "new_context")
    /\ omm_system' = addForce(omm_system, restraint_force)
    /\ UNCHANGED <<nb, amberVars, exc, mols, regionVars, restraintVars,
                   context, integrator, new_context, fileVars, evalVars,
                   analysisVars>>

\* ADP.ipynb 156, AbyU2.ipynb 204: the integrator copy is bound to the new
\* context
NewContext ==
    /\ pc = "new_context"
    /\ pc' = IF nb = "ADP" THEN "setPositions" ELSE "setParameter_k"
    /\ new_context' = Context(omm_system)
    /\ integrator' = [integrator EXCEPT !.context = "new_context"]
    /\ UNCHANGED <<nb, amberVars, exc, mols, regionVars, restraintVars,
                   omm_system, context, fileVars, evalVars, analysisVars>>

\* AbyU2.ipynb 207
SetParameterK ==
    /\ nb \in AbyUNotebooks
    /\ Goto("setParameter_k", "setParameter_r0")
    /\ new_context' = setParameter(new_context, "k", k)
    /\ lastSet' = [lastSet EXCEPT !["k"] = [set |-> TRUE, value |-> k]]
    /\ UNCHANGED <<nb, amberVars, exc, mols, regionVars, restraintVars,
                   omm_system, context, integrator, fileVars, energy,
                   analysisVars>>

\* AbyU2.ipynb 210
SetParameterR0 ==
    /\ nb \in AbyUNotebooks
    /\ Goto("setParameter_r0", "setPositions")
    /\ new_context' = setParameter(new_context, "r0", r0)
    /\ lastSet' = [lastSet EXCEPT !["r0"] = [set |-> TRUE, value |-> r0]]
    /\ UNCHANGED <<nb, amberVars, exc, mols, regionVars, restraintVars,
                   omm_system, context, integrator, fileVars, energy,
                   analysisVars>>

\* ADP.ipynb 157, AbyU2.ipynb 213
SetPositions ==
    /\ Goto("setPositions", "open")
    /\ new_context' = setPositions(new_context, context.positions)
    /\ UNCHANGED <<nb, amberVars, exc, mols, regionVars, restraintVars,
                   omm_system, context, integrator, fileVars, evalVars,
                   analysisVars>>

\* ADP.ipynb 168, AbyU2.ipynb 249
Open ==
    /\ pc = "open"
    /\ pc' = IF nb = "ADP" THEN "DCDFile" ELSE "getState0"
    /\ file_handle' = "open"
    /\ UNCHANGED <<nb, amberVars, exc, mols, regionVars, restraintVars,
                   contextVars, dcd_file, x, positions, evalVars,
                   analysisVars>>

\* AbyU2.ipynb 250-251
GetState0 ==
    /\ nb \in AbyUNotebooks
    /\ Goto("getState0", "DCDFile")
    /\ positions' = new_context.positions
    /\ UNCHANGED <<nb, amberVars, exc, mols, regionVars, restraintVars,
                   contextVars, file_handle, dcd_file, x, evalVars,
                   analysisVars>>

\* ADP.ipynb 169, AbyU2.ipynb 252
DCDFile ==
    /\ pc = "DCDFile"
    /\ pc' = IF nb = "ADP" THEN "for" ELSE "writeModel0"
    /\ dcd_file' = [created |-> TRUE, frames |-> <<>>]
    /\ UNCHANGED <<nb, amberVars, exc, mols, regionVars, restraintVars,
                   contextVars, file_handle, x, positions, evalVars,
                   analysisVars>>

writeModel_twice(f, p) == [f EXCEPT !.frames = Append(Append(@, p), p)]
writeModel(f, p) == [f EXCEPT !.frames = Append(@, p)]

\* AbyU2.ipynb 253
WriteModel0 ==
    /\ nb \in AbyUNotebooks
    /\ Goto("writeModel0", "for")
    /\ dcd_file' = writeModel(dcd_file, positions)
    /\ UNCHANGED <<nb, amberVars, exc, mols, regionVars, restraintVars,
                   contextVars, file_handle, x, positions, evalVars,
                   analysisVars>>

\* ADP.ipynb 170, AbyU2.ipynb 255: `for x in range(M)`; x counts the
\* iterations completed
For ==
    /\ pc = "for"
    /\ pc' = IF x < M(nb) THEN "step" ELSE "close"
    /\ UNCHANGED <<nb, amberVars, exc, mols, regionVars, restraintVars,
                   contextVars, fileVars, evalVars, analysisVars>>

\* integrator.step(n): n steps of the context the integrator is bound to
StepBound(n) ==
    /\ integrator.context # "none"
    /\ IF integrator.context = "new_context"
       THEN new_context' = step(new_context, n) /\ UNCHANGED context
       ELSE context' = step(context, n) /\ UNCHANGED new_context

\* ADP.ipynb 171, AbyU2.ipynb 256
Step ==
    /\ Goto("step", "getState")
    /\ StepBound(S(nb))
    /\ UNCHANGED <<nb, amberVars, exc, mols, regionVars, restraintVars,
                   omm_system, integrator, fileVars, evalVars, analysisVars>>

\* integrator.step raising after j < S steps
StepRaises ==
    /\ Goto("step", "raised")
    /\ exc' = "step"
    /\ \E j \in 0..(S(nb) - 1) : StepBound(j)
    /\ UNCHANGED <<nb, amberVars, mols, regionVars, restraintVars,
                   omm_system, integrator, fileVars, evalVars, analysisVars>>

\* ADP.ipynb 172-173, AbyU2.ipynb 257-258
GetState_original ==
    /\ Goto("getState", "writeModel")
    /\ positions' = context.positions
    /\ UNCHANGED <<nb, amberVars, exc, mols, regionVars, restraintVars,
                   contextVars, file_handle, dcd_file, x, evalVars,
                   analysisVars>>
GetState ==
    /\ Goto("getState", "writeModel")
    /\ positions' = new_context.positions
    /\ UNCHANGED <<nb, amberVars, exc, mols, regionVars, restraintVars,
                   contextVars, file_handle, dcd_file, x, evalVars,
                   analysisVars>>

\* ADP.ipynb 174, AbyU2.ipynb 259: the last statement of the loop body
WriteModel ==
    /\ Goto("writeModel", "for")
    /\ dcd_file' = writeModel(dcd_file, positions)
    /\ x' = x + 1
    /\ UNCHANGED <<nb, amberVars, exc, mols, regionVars, restraintVars,
                   contextVars, file_handle, positions, evalVars,
                   analysisVars>>

\* ADP.ipynb 175, AbyU2.ipynb 261
Close ==
    /\ Goto("close", "view")
    /\ file_handle' = "closed"
    /\ UNCHANGED <<nb, amberVars, exc, mols, regionVars, restraintVars,
                   contextVars, dcd_file, x, positions, evalVars,
                   analysisVars>>

\* The library calls of the sampling cell that can raise; nothing catches
\* the exception, so the cell stops at the failing statement.
RaisingStatements ==
    {"open", "getState0", "DCDFile", "writeModel0", "getState", "writeModel"}

Raises ==
    /\ pc \in RaisingStatements
    /\ pc' = "raised"
    /\ exc' = pc
    /\ UNCHANGED <<nb, amberVars, mols, regionVars, restraintVars,
                   contextVars, fileVars, evalVars, analysisVars>>

\* The cells whose library calls fail on a missing file, a misconfigured
\* backend or a malformed selection: the exception ends the cell before
\* the call has assigned anything.
FailingCells == {"load", "calculator", "dynamics", "view"}

CellRaises ==
    /\ pc \in FailingCells
    /\ pc' = "raised"
    /\ exc' = pc
    /\ UNCHANGED <<nb, amberVars, mols, regionVars, restraintVars,
                   contextVars, fileVars, evalVars, analysisVars>>

----------------------------------------------------------------------------
(* The error analysis of ADP.ipynb.  Arrays are sequences of integers; a   *)
(* float result is NaN or the square root of an exact rational, so two     *)
(* results are equal exactly when their radicands are.                     *)

MaxLen == 2
MaxRows == 2
MaxVal == 1

Values == 0..MaxVal

SeqsUpTo(n) == UNION {[1..m -> Values] : m \in 0..n}
Arrays == SeqsUpTo(MaxLen)

NaN == [kind |-> "nan", sq |-> RZero]
Raised == [kind |-> "raise", sq |-> RZero]
Float(sq) == [kind |-> "value", sq |-> sq]

\* Python's == on two results: NaN equals nothing, itself included.
PyEq(p, q) == p.kind = "value" /\ q.kind = "value" /\ p.sq = q.sq

\* numpy broadcasting of two 1-d arrays (a 0-d scalar behaves as length 1)
Broadcastable_equal(a, b) == Len(a) = Len(b)
Broadcastable(a, b) == Len(a) = Len(b) \/ Len(a) = 1 \/ Len(b) = 1
BroadcastLen(a, b) ==
    IF Len(a) = 1 THEN Len(b) ELSE IF Len(b) = 1 THEN Len(a) ELSE Len(a)
At(a, i) == IF Len(a) = 1 THEN a[1] ELSE a[i]

np_sub(a, b) == [i \in 1..BroadcastLen(a, b) |-> At(a, i) - At(b, i)]
np_add(a, b) == [i \in 1..BroadcastLen(a, b) |-> At(a, i) + At(b, i)]
np_square(a) == [i \in 1..Len(a) |-> a[i] * a[i]]

RECURSIVE SumTo(_, _)
SumTo(a, n) == IF n = 0 THEN 0 ELSE a[n] + SumTo(a, n - 1)

\* np.mean: NaN for an empty array (0/0), else the exact mean
np_mean(a) == IF Len(a) = 0 THEN NaN ELSE Float(Rat(SumTo(a, Len(a)), Len(a)))

\* np.sqrt of a mean: NaN for NaN and for a negative number
np_sqrt(m) == IF m.kind = "value" /\ m.sq.num >= 0 THEN m ELSE NaN

\* ADP.ipynb 256-257
get_rmse_signed(a, b) ==
    IF ~Broadcastable(a, b) THEN Raised
    ELSE np_sqrt(np_mean(np_sub(a, b)))
get_rmse(a, b) ==
    IF ~Broadcastable(a, b) THEN Raised
    ELSE np_sqrt(np_mean(np_square(np_sub(a, b))))

\* ADP.ipynb 259-260
get_static_rmse(d) == get_rmse(d.E_static_qm, d.E_static_emle)

\* ADP.ipynb 262-263
get_induced_rmse(d) == get_rmse(d.E_induced_qm, d.E_induced_emle)

\* sqrt(static^2 + induced^2)
Quadrature(p, q) ==
    IF p.kind = "value" /\ q.kind = "value" THEN Float(RAdd(p.sq, q.sq))
    ELSE IF p.kind = "raise" \/ q.kind = "raise" THEN Raised ELSE NaN

\* ADP.ipynb 265-266
get_total_rmse_quadrature(d) ==
    Quadrature(get_static_rmse(d), get_induced_rmse(d))
get_total_rmse(d) ==
    IF ~Broadcastable(d.E_static_qm, d.E_induced_qm)
       \/ ~Broadcastable(d.E_static_emle, d.E_induced_emle)
    THEN Raised
    ELSE get_rmse(np_add(d.E_static_qm, d.E_induced_qm),
                  np_add(d.E_static_emle, d.E_induced_emle))

\* ADP.ipynb 268-272: the three errors, in the order they are computed; the
\* first call that raises ends get_errors
get_errors(d) ==
    LET static == get_static_rmse(d)
        induced == IF static.kind = "raise" THEN Raised ELSE get_induced_rmse(d)
        total == IF induced.kind = "raise" THEN Raised ELSE get_total_rmse(d)
    IN  [computed |-> TRUE, static |-> static, induced |-> induced,
         total |-> total]

\* The tables emle-analyze writes: one row per configuration, so the four
\* arrays have one length.
Tables ==
    UNION {[E_static_qm : [1..n -> Values], E_static_emle : [1..n -> Values],
            E_induced_qm : [1..n -> Values], E_induced_emle : [1..n -> Values],
            loaded : {TRUE}] : n \in 0..MaxRows}

\* ADP.ipynb 195-207, AbyU2.ipynb 286-292
View ==
    /\ pc = "view"
    /\ pc' = IF nb = "ADP" THEN "analyze" ELSE "end"
    /\ selection' =
           IF Region(nb).kind = "search"
           THEN LET sel == select(Atoms(mols.natoms), Region(nb).string)
                IN  [done |-> TRUE, string |-> Region(nb).string,
                     natoms |-> mols.natoms, raised |-> sel.raised,
                     atoms |-> sel.atoms]
           ELSE selection
    /\ UNCHANGED <<nb, amberVars, exc, mols, engine, restraintVars,
                   contextVars, fileVars, evalVars, analysisVars>>

\* ADP.ipynb 229-236
Analyze ==
    /\ nb = "ADP"
    /\ Goto("analyze", "loadmat")
    /\ UNCHANGED <<nb, amberVars, exc, mols, regionVars, restraintVars,
                   contextVars, fileVars, evalVars, analysisVars>>

\* ADP.ipynb 246
LoadMat ==
    /\ Goto("loadmat", "get_errors")
    /\ data' \in Tables
    /\ UNCHANGED <<nb, amberVars, exc, mols, regionVars, restraintVars,
                   contextVars, fileVars, evalVars, call, errors>>

\* ADP.ipynb 282
GetErrors ==
    /\ pc = "get_errors"
    /\ errors' = get_errors(data)
    /\ pc' = IF errors'.total.kind = "raise" THEN "raised" ELSE "end"
    /\ exc' = IF errors'.total.kind = "raise" THEN "get_errors" ELSE exc
    /\ UNCHANGED <<nb, amberVars, mols, regionVars, restraintVars,
                   contextVars, fileVars, evalVars, call, data>>

\* get_rmse applied to a pair of arrays
CallGetRmse ==
    /\ Goto("call", "called")
    /\ \E a \in Arrays, b \in Arrays :
           call' = [called |-> TRUE, a |-> a, b |-> b, result |-> get_rmse(a, b)]
    /\ UNCHANGED <<nb, amberVars, exc, mols, regionVars, restraintVars,
                   contextVars, fileVars, evalVars, data, errors>>

----------------------------------------------------------------------------

Next ==
    \/ RestraintParams
    \/ CreateCV
    \/ AddBond
    \/ CreateRestraintForce
    \/ AmberCd
    \/ AmberAssign
    \/ AmberRm
    \/ AmberMkdir
    \/ AmberCdOutput
    \/ AmberServer
    \/ ServerReady
    \/ AmberSander
    \/ SanderRequest
    \/ ServerAnswer
    \/ RequestFails
    \/ SanderExit
    \/ AmberStop
    \/ AmberCdBack
    \/ Load
    \/ Calculator
    \/ Dynamics
    \/ GetContext
    \/ AddForce
    \/ NewContext
    \/ SetParameterK
    \/ SetParameterR0
    \/ SetPositions
    \/ Open
    \/ GetState0
    \/ DCDFile
    \/ WriteModel0
    \/ For
    \/ Step
    \/ StepRaises
    \/ GetState
    \/ WriteModel
    \/ Close
    \/ Raises
    \/ CellRaises
    \/ View
    \/ Analyze

Spec == Init /\ [][Next]_vars

----------------------------------------------------------------------------
(* The analysis cells on their own: they read analyze_generic.mat and      *)
(* nothing of the simulation.  get_rmse is also applied to arbitrary       *)
(* pairs of arrays.                                                        *)

InitAnalysis ==
    /\ nb = "ADP"
    /\ pc \in {"loadmat", "call"}
    /\ exc = "none"
    /\ mols = NoMols
    /\ engine = NoEngine
    /\ selection = NoSelection
    /\ shell = NoShell
    /\ server = "off"
    /\ sander = NoSander
    /\ distances = <<>>
    /\ k = Bare(RZero)
    /\ r0 = Bare(RZero)
    /\ cv = CustomBondForce("")
    /\ restraint_force = NoForce
    /\ omm_system = <<>>
    /\ context = NoContext
    /\ integrator = NoIntegrator
    /\ new_context = NoContext
    /\ file_handle = "none"
    /\ dcd_file = NoDcd
    /\ x = 0
    /\ positions = Unset
    /\ energy = NoEnergy
    /\ lastSet = NeverSet
    /\ call = NoCall
    /\ data = NoData
    /\ errors = NoErrors

NextAnalysis ==
    \/ LoadMat
    \/ GetErrors
    \/ CallGetRmse

SpecAnalysis == InitAnalysis /\ [][NextAnalysis]_vars

----------------------------------------------------------------------------
(* The restraint on its own: built by the statements of AbyU2.ipynb 66-76  *)
(* from any list of weighted pairs, attached to a context, its parameters  *)
(* set by name and its energy evaluated for any pair distances.            *)

MaxPairs == 2
NumDists == 3

PairChoices == {<<2125, 2094>>, <<2119, 2087>>}
Weights == {Rat(7, 10), Rat(3, 10)}
TripleChoices == {Triple(p[1], p[2], w) : p \in PairChoices, w \in Weights}
PairLists == UNION {[1..n -> TripleChoices] : n \in 0..MaxPairs}

KInputs == {k_literal(K_QMMM), k_literal(K_MLMM)}
R0Inputs == {r0_literal, Quantity(Rat(1, 2), nanometer)}

\* pair distances in nm: 0.25, 0.5, ...
Dists == {Rat(i, 4) : i \in 1..NumDists}
DistanceAssignments == [PairChoices -> Dists]

InitRestraint ==
    /\ nb = "AbyU_QMMM"
    /\ pc = "cv_create"
    /\ exc = "none"
    /\ mols = NoMols
    /\ engine = NoEngine
    /\ selection = NoSelection
    /\ shell = NoShell
    /\ server = "off"
    /\ sander = NoSander
    /\ distances \in PairLists
    /\ k \in KInputs
    /\ r0 \in R0Inputs
    /\ cv = CustomBondForce("")
    /\ restraint_force = NoForce
    /\ omm_system = <<>>
    /\ context = NoContext
    /\ integrator = NoIntegrator
    /\ new_context = NoContext
    /\ file_handle = "none"
    /\ dcd_file = NoDcd
    /\ x = 0
    /\ positions = Unset
    /\ energy = NoEnergy
    /\ lastSet = NeverSet
    /\ call = NoCall
    /\ data = NoData
    /\ errors = NoErrors

\* The restraint force of a context (the CustomCVForce of its system).
RestraintOf(ctx) ==
    LET i == CHOOSE j \in 1..Len(ctx.system) : ctx.system[j].kind = "CustomCVForce"
    IN  ctx.system[i]

HasRestraint(ctx) ==
    \E j \in 1..Len(ctx.system) : ctx.system[j].kind = "CustomCVForce"

\* omm_system.addForce(restraint_force); openmm.Context(omm_system, ...)
AttachRestraint ==
    /\ Goto("load", "context_ready")
    /\ omm_system' = addForce(BaseForces, restraint_force)
    /\ new_context' = Context(omm_system')
    /\ UNCHANGED <<nb, amberVars, exc, mols, regionVars, restraintVars,
                   context, integrator, fileVars, evalVars, analysisVars>>

\* new_context.setParameter(name, value)
SetParameter ==
    /\ pc \in {"context_ready", "evaluated"}
    /\ pc' = "context_ready"
    /\ \E name \in {"k", "r0"} :
         \E value \in (IF name = "k" THEN KInputs ELSE R0Inputs) :
           /\ new_context' = setParameter(new_context, name, value)
           /\ lastSet' = [lastSet EXCEPT ![name] = [set |-> TRUE, value |-> value]]
    /\ energy' = NoEnergy
    /\ UNCHANGED <<nb, amberVars, exc, mols, regionVars, restraintVars,
                   omm_system, context, integrator, fileVars, analysisVars>>

\* the restraint energy of new_context for the pair distances r
EvaluateEnergy ==
    /\ Goto("context_ready", "evaluated")
    /\ \E r \in DistanceAssignments :
           energy' = [evaluated |-> TRUE, r |-> r,
                      value |-> CVForceEnergy(RestraintOf(new_context),
                                              new_context.parameters, r)]
    /\ UNCHANGED <<nb, amberVars, exc, mols, regionVars, restraintVars,
                   contextVars, fileVars, lastSet, analysisVars>>

NextRestraint ==
    \/ CreateCV
    \/ AddBond
    \/ CreateRestraintForce
    \/ AttachRestraint
    \/ SetParameter
    \/ EvaluateEnergy

SpecRestraint == InitRestraint /\ [][NextRestraint]_vars

----------------------------------------------------------------------------
(* Atom selection on its own: the loading cell of the AbyU notebooks, and  *)
(* a search string of one or two ranges applied to a system of any size.   *)

MaxAtomNum == 3

RECURSIVE IntToChars(_)
IntToChars(n) ==
    IF n < 10 THEN <<Digits[n + 1]>>
    ELSE IntToChars(n \div 10) \o <<Digits[(n % 10) + 1]>>

\* "atomnum a:b,c:d"
SearchString(a, b, c, d) ==
    Keyword \o IntToChars(a) \o <<":">> \o IntToChars(b) \o <<",">>
            \o IntToChars(c) \o <<":">> \o IntToChars(d)

SmallRanges ==
    {q \in (1..MaxAtomNum) \X (1..MaxAtomNum) \X (1..MaxAtomNum)
               \X (1..MaxAtomNum) : q[1] <= q[2] /\ q[3] <= q[4]}

\* strings the search does not accept: no keyword, no list, an open range
Malformed ==
    {SubSeq(REGION, Len(Keyword) + 1, Len(REGION)), Keyword,
     SubSeq(REGION, 1, Len(Keyword) + 5)}

SelectInputs ==
    {<<SearchString(q[1], q[2], q[3], q[4]), n>> :
         q \in SmallRanges, n \in 0..(MaxAtomNum + 1)}
    \cup {<<REGION, n>> : n \in SystemSizes}
    \cup {<<m, n>> : m \in Malformed, n \in SystemSizes}

InitRegion ==
    /\ nb \in AbyUNotebooks
    /\ pc \in {"load", "select"}
    /\ exc = "none"
    /\ mols = NoMols
    /\ engine = NoEngine
    /\ selection = NoSelection
    /\ shell = NoShell
    /\ server = "off"
    /\ sander = NoSander
    /\ distances = <<>>
    /\ k = Bare(RZero)
    /\ r0 = Bare(RZero)
    /\ cv = CustomBondForce("")
    /\ restraint_force = NoForce
    /\ omm_system = <<>>
    /\ context = NoContext
    /\ integrator = NoIntegrator
    /\ new_context = NoContext
    /\ file_handle = "none"
    /\ dcd_file = NoDcd
    /\ x = 0
    /\ positions = Unset
    /\ energy = NoEnergy
    /\ lastSet = NeverSet
    /\ call = NoCall
    /\ data = NoData
    /\ errors = NoErrors

\* atoms[s] for a search string s on a system of n atoms
Select ==
    /\ pc = "select"
    /\ \E in \in SelectInputs :
           LET sel == select(Atoms(in[2]), in[1])
           IN  /\ selection' = [done |-> TRUE, string |-> in[1],
                                natoms |-> in[2], raised |-> sel.raised,
                                atoms |-> sel.atoms]
               /\ pc' = IF sel.raised THEN "raised" ELSE "selected"
               /\ exc' = IF sel.raised THEN "select" ELSE exc
    /\ UNCHANGED <<nb, amberVars, mols, engine, restraintVars, contextVars,
                   fileVars, evalVars, analysisVars>>

NextRegion ==
    \/ Load
    \/ Select

SpecRegion == InitRegion /\ [][NextRegion]_vars

----------------------------------------------------------------------------
(* Properties of the sampling loops.                                       *)

\* The positions reached from the loaded coordinates after n steps.
After(n) == [base |-> mols.coords, steps |-> n]

SamplingDone == file_handle = "closed"

\* C1: in the ADP loop, at the loop head after x completed iterations the
\* new context has advanced exactly 10*x steps and the trajectory holds
\* exactly x frames, frame j being the positions after 10*j steps (so none
\* is taken before the first step); once the file is closed it holds 500
\* frames, the last one after 5000 steps.
C1_AdpFramesAndSteps ==
    nb = "ADP" =>
        /\ Len(dcd_file.frames) = x
        /\ \A j \in 1..Len(dcd_file.frames) :
               /\ dcd_file.frames[j] = After(STEPS_ADP * j)
               /\ dcd_file.frames[j].steps > 0
        /\ pc = "for" => new_context.stepCount = STEPS_ADP * x
        /\ SamplingDone =>
               /\ Len(dcd_file.frames) = WRITES_ADP
               /\ new_context.stepCount = STEPS_ADP * WRITES_ADP
               /\ dcd_file.frames[WRITES_ADP].steps = STEPS_ADP * WRITES_ADP

C1_Witness ==
    /\ nb = "ADP"
    /\ SamplingDone
    /\ Len(dcd_file.frames) = WRITES_ADP
    /\ new_context.stepCount = STEPS_ADP * WRITES_ADP

\* C2: in the AbyU loop, once the file is closed the trajectory holds 301
\* frames: frame 0 is the positions copied from the original context into
\* the new one, taken before any step, and frame j is the positions after
\* exactly j steps; while the loop runs the file holds x + 1 frames.
C2_AbyUFrames ==
    (nb \in AbyUNotebooks /\ Len(dcd_file.frames) > 0) =>
        /\ Len(dcd_file.frames) = x + 1
        /\ dcd_file.frames[1] = context.positions
        /\ \A j \in 0..x : dcd_file.frames[j + 1] = After(STEPS_ABYU * j)
        /\ SamplingDone =>
               /\ Len(dcd_file.frames) = WRITES_ABYU + 1
               /\ new_context.stepCount = STEPS_ABYU * WRITES_ABYU

C2_Witness ==
    /\ nb = "AbyU_QMMM"
    /\ SamplingDone
    /\ Len(dcd_file.frames) = WRITES_ABYU + 1
    /\ dcd_file.frames[1] = After(0)
    /\ dcd_file.frames[WRITES_ABYU + 1] = After(WRITES_ABYU)

\* The sampling cell has been left: by running to its end, or by an
\* exception raised by one of its statements.
SamplingCellLeft ==
    \/ SamplingDone
    \/ pc = "raised" /\ exc \in RaisingStatements \cup {"step"}

\* C3: whenever the sampling cell has been left, on any exit path, the
\* trajectory file it opened is closed.
C3_FileClosedOnEveryExit ==
    (SamplingCellLeft /\ file_handle # "none") => file_handle = "closed"

----------------------------------------------------------------------------
(* Properties of the restraint.                                            *)

\* The sum over the listed triples of weight_i * r(pair_i).
RECURSIVE WeightedSum(_, _, _)
WeightedSum(list, r, n) ==
    IF n = 0 THEN RZero
    ELSE RAdd(WeightedSum(list, r, n - 1),
              RMul(list[n].weight, r[<<list[n].atom1, list[n].atom2>>]))

\* kk * (sum_i weight_i * r(pair_i) - rr)^2 over the listed triples
Quadratic(kk, rr, list, r) ==
    RMul(kk, RSquare(RSub(WeightedSum(list, r, Len(list)), rr)))

\* The default value a force registered for a global parameter.
GlobalDefault(f, name) == ForceGlobals(f.globals, Len(f.globals))[name]

\* C4: the restraint built from the list `distances` holds one bond per
\* listed triple, with that triple's atoms and weight, and its energy for
\* any pair distances r is k * (sum_i weight_i * r(pair_i) - r0)^2 over the
\* listed triples only, k and r0 being the context's parameters.
C4_RestraintEnergy ==
    /\ restraint_force.kind = "CustomCVForce" =>
           /\ Len(restraint_force.cv.bonds) = Len(distances)
           /\ \A i \in 1..Len(distances) :
                  /\ restraint_force.cv.bonds[i].atom1 = distances[i].atom1
                  /\ restraint_force.cv.bonds[i].atom2 = distances[i].atom2
                  /\ restraint_force.cv.bonds[i].parameters = <<distances[i].weight>>
           /\ restraint_force.cvname = "weighted_distance"
    /\ energy.evaluated =>
           energy.value = Quadratic(new_context.parameters["k"],
                                    new_context.parameters["r0"],
                                    distances, energy.r)

C4_Witness ==
    /\ energy.evaluated
    /\ distances = distances_literal
    /\ energy.r[<<2125, 2094>>] # energy.r[<<2119, 2087>>]
    /\ energy.value # RZero

\* C5: for every list of weighted pairs and every pair distances, the
\* restraint energy evaluated is 0 where weighted_distance = r0, positive
\* elsewhere, and smaller than the energy at any pair distances whose
\* |weighted_distance - r0| is larger.
C5_EnergyShape ==
    energy.evaluated =>
        LET f == RestraintOf(new_context)
            p == new_context.parameters
            here == BondForceEnergy(f.cv, energy.r)
            dev(w) == RAbs(RSub(w, p["r0"]))
            E(w) == Evaluate(f.expression,
                             [v \in {"k", "r0", "weighted_distance"} |->
                                 IF v = "weighted_distance" THEN w ELSE p[v]])
        IN  /\ here = p["r0"] => energy.value = RZero
            /\ here # p["r0"] => RLess(RZero, energy.value)
            /\ \A r2 \in DistanceAssignments :
                   LET there == BondForceEnergy(f.cv, r2)
                   IN  RLess(dev(here), dev(there)) =>
                           RLess(energy.value, E(there))

C5_Witness ==
    /\ energy.evaluated
    /\ Len(distances) = 2
    /\ BondForceEnergy(RestraintOf(new_context).cv, energy.r)
           = new_context.parameters["r0"]
    /\ energy.value = RZero

\* The value a parameter must have: the one last set by name, else the
\* default registered when the force was constructed.
Effective(name) ==
    IF lastSet[name].set THEN StripUnits(lastSet[name].value)
    ELSE StripUnits(IF name = "k" THEN k ELSE r0)

\* C6: after any setParameter calls on the context, each of k and r0 has
\* the value last set for it by name (its registered default if it was
\* never set, so setting one leaves the other alone), the restraint force
\* of the context is the one constructed (same pairs, weights and
\* expression), and an energy evaluated afterwards uses those values.
C6_SetParameterByName ==
    HasRestraint(new_context) =>
        /\ \A name \in {"k", "r0"} :
               new_context.parameters[name] = Effective(name)
        /\ RestraintOf(new_context) = restraint_force
        /\ RestraintOf(new_context).expression = energy_expression
        /\ energy.evaluated =>
               energy.value = Quadratic(Effective("k"), Effective("r0"),
                                        distances, energy.r)

C6_Witness ==
    /\ energy.evaluated
    /\ lastSet["k"].set
    /\ ~lastSet["r0"].set
    /\ new_context.parameters["k"] # StripUnits(k)
    /\ new_context.parameters["k"] = StripUnits(lastSet["k"].value)
    /\ new_context.parameters["r0"] = StripUnits(r0)

\* C7: in the QM/MM AbyU notebook the force constant is 52300 kJ/mol/nm^2
\* (125 kcal/mol/A^2 with 1 kcal = 4.184 kJ, 1 A = 0.1 nm): as the notebook
\* holds it, as the force registers it and as the context uses it.
C7_ForceConstant ==
    nb = "AbyU_QMMM" =>
        /\ pc # "restraint_params" => k = Bare(RInt(52300))
        /\ restraint_force.kind = "CustomCVForce" =>
               GlobalDefault(restraint_force, "k") = RInt(52300)
        /\ HasRestraint(new_context) =>
               new_context.parameters["k"] = RInt(52300)

C7_Witness ==
    /\ nb = "AbyU_QMMM"
    /\ pc = "step"
    /\ lastSet["k"].set
    /\ new_context.parameters["k"] = RInt(52300)

\* C8: in the AbyU notebooks the restraint parameters reach the engine in
\* kJ/mol/nm^2 and nm, when registered by addGlobalParameter and when set
\* by setParameter: r0 is 0.25 (never 2.5) and k is the kcal/mol/A^2
\* literal times 418.4.
C8_InternalUnits ==
    nb \in AbyUNotebooks =>
        /\ restraint_force.kind = "CustomCVForce" =>
               /\ GlobalDefault(restraint_force, "r0") = Rat(1, 4)
               /\ GlobalDefault(restraint_force, "k")
                      = RMul(RInt(KLiteral(nb)), Rat(4184, 10))
        /\ HasRestraint(new_context) =>
               /\ new_context.parameters["r0"] = Rat(1, 4)
               /\ new_context.parameters["r0"] # Rat(25, 10)
               /\ new_context.parameters["k"]
                      = RMul(RInt(KLiteral(nb)), Rat(4184, 10))

C8_Witness ==
    /\ nb \in AbyUNotebooks
    /\ pc = "step"
    /\ lastSet["r0"].set
    /\ lastSet["r0"].value = Quantity(Rat(25, 10), angstrom)
    /\ new_context.parameters["r0"] = Rat(1, 4)

----------------------------------------------------------------------------
(* Properties of the error analysis.                                       *)

C10_TotalIsRmseOfSums ==
    (errors.computed /\ Len(data.E_static_qm) > 0) =>
        LET n == Len(data.E_static_qm)
            sumsq == [i \in 1..n |->
                         ((data.E_static_qm[i] + data.E_induced_qm[i])
                          - (data.E_static_emle[i] + data.E_induced_emle[i]))
                         * ((data.E_static_qm[i] + data.E_induced_qm[i])
                            - (data.E_static_emle[i] + data.E_induced_emle[i]))]
            cross == [i \in 1..n |->
                         (data.E_static_qm[i] - data.E_static_emle[i])
                         * (data.E_induced_qm[i] - data.E_induced_emle[i])]
        IN  /\ errors.total = Float(Rat(SumTo(sumsq, n), n))
            /\ errors.total.sq = RAdd(RAdd(errors.static.sq, errors.induced.sq),
                                      Rat(2 * SumTo(cross, n), n))
            /\ PyEq(errors.total, Quadrature(errors.static, errors.induced))
                   <=> SumTo(cross, n) = 0

C10_Witness ==
    /\ errors.computed
    /\ errors.static.kind = "value"
    /\ errors.induced.kind = "value"
    /\ errors.total.kind = "value"
    /\ errors.total.sq # RAdd(errors.static.sq, errors.induced.sq)

\* C11, over every pair of lengths: whenever a and b differ in length, a
\* single-element array or scalar included, get_rmse(a, b) raises.
C11_RaisesOnEveryLengthMismatch ==
    (call.called /\ Len(call.a) # Len(call.b)) => call.result = Raised

\* The mean of (long[i] - single)^2 over the elements of long.
RECURSIVE SumSqDev(_, _, _)
SumSqDev(long, single, n) ==
    IF n = 0 THEN 0
    ELSE (long[n] - single) * (long[n] - single) + SumSqDev(long, single, n - 1)

\* C11, with broadcasting: get_rmse(a, b) raises exactly when a and b differ
\* in length and neither holds a single element; when exactly one of them
\* holds a single element (or is a scalar) it is subtracted from every
\* element of the other and a value is returned (NaN if the other is empty).
C11_RaisesUnlessBroadcast ==
    call.called =>
        /\ call.result = Raised
               <=> /\ Len(call.a) # Len(call.b)
                   /\ Len(call.a) # 1
                   /\ Len(call.b) # 1
        /\ (Len(call.a) = 1 /\ Len(call.b) # 1) =>
               call.result =
                   IF Len(call.b) = 0 THEN NaN
                   ELSE Float(Rat(SumSqDev(call.b, call.a[1], Len(call.b)),
                                  Len(call.b)))
        /\ (Len(call.b) = 1 /\ Len(call.a) # 1) =>
               call.result =
                   IF Len(call.a) = 0 THEN NaN
                   ELSE Float(Rat(SumSqDev(call.a, call.b[1], Len(call.a)),
                                  Len(call.a)))

C11_Witness ==
    /\ call.called
    /\ Len(call.a) = 1
    /\ Len(call.b) = MaxLen
    /\ call.result.kind = "value"
    /\ call.result # Float(RZero)

----------------------------------------------------------------------------
(* Properties of the atom selection.                                       *)

RegionNumbers == (1804..1822) \cup (2083..2132)

\* atoms holds exactly the atoms numbered in nums, each once, in the order
\* of the system
HoldsExactly(atoms, nums) ==
    /\ Len(atoms) = Cardinality(nums)
    /\ \A i \in 1..Len(atoms) : atoms[i].num \in nums
    /\ \A v \in nums : \E i \in 1..Len(atoms) : atoms[i].num = v
    /\ \A i \in 1..(Len(atoms) - 1) : atoms[i].idx < atoms[i + 1].idx

----------------------------------------------------------------------------
(* Properties of the run as a whole.                                       *)

\* The cell (pipeline stage) each statement belongs to.
Stage(stmt) ==
    CASE stmt \in {"amber", "amber_assign", "amber_rm", "amber_mkdir",
                   "amber_cd_output", "amber_server", "amber_sander",
                   "amber_sander_wait", "amber_stop", "amber_cd_back"} -> "amber"
      [] stmt \in {"restraint_params", "cv_create", "cv_addBond"} -> "restraint"
      [] stmt = "load" -> "loader"
      [] stmt = "calculator" -> "binder"
      [] stmt \in {"dynamics", "get_context", "addForce", "new_context",
                   "setParameter_k", "setParameter_r0", "setPositions"} -> "driver"
      [] stmt \in {"open", "getState0", "DCDFile", "writeModel0", "for",
                   "step", "getState", "writeModel", "close"} -> "sampling"
      [] stmt = "view" -> "view"
      [] stmt \in {"analyze", "loadmat"} -> "analysis"
      [] OTHER -> "end"

\* The stage the run is in; a run stopped by an exception stays in the
\* stage of the statement that raised.
CurrentStage == Stage(IF pc = "raised" THEN exc ELSE pc)

Position(order, stage) == CHOOSE i \in 1..Len(order) : order[i] = stage

\* The order of the cells in each notebook (in the AbyU notebooks the
\* loading cell also binds the engine).
CellOrder(n) ==
    IF n = "ADP"
    THEN <<"amber", "loader", "binder", "driver", "sampling", "view",
           "analysis", "end">>
    ELSE <<"restraint", "loader", "driver", "sampling", "view", "end">>

\* loader, binder, restraint constructor, driver, sampling loop, analysis
\* (with the AMBER cell first and the viewing cell after the sampling loop)
OrderLoaderFirst ==
    <<"amber", "loader", "binder", "restraint", "driver", "sampling", "view",
      "analysis", "end">>

\* C13, restraint constructor after the binder: in every run the stages
\* execute in the order loader, embedding binder, restraint constructor,
\* dynamics driver, sampling loop, analysis; the run never moves from a
\* stage to an earlier one.
C13_StagesInOrderLoaderFirst ==
    [][Position(OrderLoaderFirst, CurrentStage')
           >= Position(OrderLoaderFirst, CurrentStage)]_vars

\* What a completed stage leaves behind.
Completed(stage) ==
    CASE stage = "restraint" ->
             /\ restraint_force.kind = "CustomCVForce"
             /\ Len(restraint_force.cv.bonds) = Len(distances_literal)
      [] stage = "loader" ->
             /\ mols # NoMols
             /\ nb \in AbyUNotebooks => engine.bound
      [] stage = "binder" -> engine.bound
      [] stage = "driver" ->
             /\ context.exists
             /\ new_context.exists
             /\ integrator.context = "new_context"
             /\ new_context.positions.base = context.positions.base
      [] stage = "sampling" -> file_handle = "closed" /\ x = M(nb)
      [] OTHER -> TRUE

\* C13, in cell order: in every run of the AbyU notebooks the stages
\* execute in the order restraint constructor, loader and embedding binder,
\* dynamics driver, sampling loop, viewing; in every run of the ADP
\* notebook in the order AMBER run, loader, embedding binder, dynamics
\* driver, sampling loop, viewing, analysis, with no restraint constructor.
\* While the run is in a stage, every earlier stage of that order has
\* completed, and the run never moves from a stage to an earlier one.
C13_StagesInCellOrder ==
    /\ [](\A i \in 1..Len(CellOrder(nb)) :
              i < Position(CellOrder(nb), CurrentStage) =>
                  Completed(CellOrder(nb)[i]))
    /\ [][Position(CellOrder(nb), CurrentStage')
              >= Position(CellOrder(nb), CurrentStage)]_vars

C13_Witness ==
    /\ nb = "AbyU_QMMM"
    /\ pc = "end"
    /\ Completed("restraint")
    /\ Completed("loader")
    /\ Completed("driver")
    /\ Completed("sampling")

\* The statements before the dynamics object exists, and those of the
\* context cell before openmm.Context is called.
BeforeDynamics ==
    \/ Stage(pc) \in {"amber", "restraint", "loader", "binder"}
    \/ pc = "dynamics"
BeforeNewContext == {"get_context", "addForce", "new_context"}

\* a context as its constructor returns it
Fresh(ctx) == ctx = Context(ctx.system)

\* C14: the dynamics driver creates the context once, and the notebook
\* builds a second one exactly once (neither is ever replaced by a fresh
\* context, and the first is never modified); the second is created from
\* the first one's system (with the restraint force added to it in AbyU)
\* and the copy of its integrator, and as long as no integration step has
\* been taken after setPositions its positions are those of the first
\* context, which are the loaded coordinates.
C14_ContextRebuiltOnce ==
    /\ [](/\ BeforeDynamics => ~context.exists /\ ~new_context.exists
          /\ pc \in BeforeNewContext => context.exists /\ ~new_context.exists
          /\ new_context.exists =>
                 /\ context.exists
                 /\ new_context.system = omm_system
                 /\ omm_system = IF nb \in AbyUNotebooks
                                 THEN addForce(context.system, restraint_force)
                                 ELSE context.system
                 /\ integrator.copied
                 /\ integrator.context = "new_context"
          /\ (CurrentStage \in {"sampling", "view", "analysis", "end"}
                 /\ new_context.stepCount = 0) =>
                 /\ new_context.positions = context.positions
                 /\ new_context.positions = After(0))
    /\ [][/\ context.exists => context' = context
          /\ new_context.exists =>
                 /\ new_context'.exists
                 /\ new_context'.system = new_context.system
                 /\ new_context' # new_context => ~Fresh(new_context')
          /\ (~context.exists /\ context'.exists) => pc = "dynamics"
          /\ (~new_context.exists /\ new_context'.exists) =>
                 pc = "new_context" /\ Fresh(new_context')]_vars

C14_Witness ==
    /\ nb \in AbyUNotebooks
    /\ pc = "step"
    /\ x = 0
    /\ new_context.stepCount = 0
    /\ new_context.system = addForce(context.system, restraint_force)
    /\ new_context.positions = context.positions
    /\ context.positions = After(0)

----------------------------------------------------------------------------
(* Properties of the AMBER cell.                                           *)

\* C15: the emle-server is started before sander is launched and stopped
\* only after sander has exited, and whenever sander has sent a request
\* the server is up and able to answer it.
C15_ServerUpForEveryRequest ==
    /\ sander.state # "off" => server # "off"
    /\ server = "stopped" => sander.state \notin {"running", "requesting"}
    /\ sander.state = "requesting" => server = "up"

\* C16: once a statement has failed (a Python call that raised, or a
\* command of the AMBER shell cell that exited with an error), no later
\* statement of that cell executes.
C16_FailureEndsCell ==
    [][(pc = "raised" \/ shell.failed # "none") => pc' = pc]_vars

----------------------------------------------------------------------------
(* Properties of the restrained and unrestrained runs.                     *)

SystemHasRestraint(system) ==
    \E j \in 1..Len(system) : system[j].kind = "CustomCVForce"

\* the context holds the restraint built by the notebook, with the k and
\* r0 the notebook configured, both set by setParameter
Restrained(ctx) ==
    /\ HasRestraint(ctx)
    /\ RestraintOf(ctx) = restraint_force
    /\ lastSet["k"].set
    /\ lastSet["r0"].set
    /\ ctx.parameters["k"] = RMul(RInt(KLiteral(nb)), Rat(4184, 10))
    /\ ctx.parameters["k"] = StripUnits(k)
    /\ ctx.parameters["r0"] = Rat(1, 4)
    /\ ctx.parameters["r0"] = StripUnits(r0)

\* C17: in the AbyU runs the restraint force is in the system when the new
\* context is created, every integration step is taken by a context that
\* holds the restraint with the configured k and r0, both set by
\* setParameter beforehand, and the completed loop has taken 300 such
\* steps; in the ADP run no system or context ever holds a restraint force.
C17_RestraintInEveryStep ==
    /\ [](nb \in AbyUNotebooks =>
              /\ pc = "new_context" => SystemHasRestraint(omm_system)
              /\ new_context.exists => HasRestraint(new_context)
              /\ pc = "step" => Restrained(new_context)
              /\ SamplingDone =>
                     /\ new_context.stepCount = WRITES_ABYU * STEPS_ABYU
                     /\ Restrained(new_context))
    /\ [](nb = "ADP" =>
              /\ ~SystemHasRestraint(omm_system)
              /\ ~SystemHasRestraint(context.system)
              /\ ~SystemHasRestraint(new_context.system)
              /\ restraint_force = NoForce)
    /\ [][(nb \in AbyUNotebooks
              /\ (new_context'.stepCount # new_context.stepCount
                     \/ context'.stepCount # context.stepCount)) =>
              /\ context' = context
              /\ new_context'.stepCount = new_context.stepCount + STEPS_ABYU
              /\ Restrained(new_context)
              /\ Restrained(new_context')]_vars

C17_Witness ==
    /\ nb = "AbyU_QMMM"
    /\ SamplingDone
    /\ new_context.stepCount = 300
    /\ Restrained(new_context)
    /\ new_context.parameters["k"] = RInt(52300)

----------------------------------------------------------------------------
(* Properties of the two contexts during sampling.                         *)

\* C18: during sampling the integrator is the copy bound to new_context;
\* every step advances new_context and leaves the original context as the
\* dynamics driver made it; every frame appended to the trajectory is the
\* current positions of new_context; and consecutive frames of the loop
\* are exactly S steps of new_context apart.
C18_FramesFromSteppedContext ==
    /\ [](/\ context.exists =>
                 context.stepCount = 0 /\ context.positions = After(0)
          /\ CurrentStage = "sampling" =>
                 /\ integrator.copied
                 /\ integrator.context = "new_context"
          /\ \A j \in 1..(Len(dcd_file.frames) - 1) :
                 /\ dcd_file.frames[j + 1].base = dcd_file.frames[j].base
                 /\ dcd_file.frames[j + 1].steps
                        = dcd_file.frames[j].steps + S(nb)
          /\ (pc = "for" /\ Len(dcd_file.frames) > 0) =>
                 dcd_file.frames[Len(dcd_file.frames)].steps
                     = new_context.stepCount)
    /\ [][/\ Len(dcd_file'.frames) # Len(dcd_file.frames) =>
                 /\ dcd_file'.frames
                        = Append(dcd_file.frames, new_context.positions)
                 /\ new_context' = new_context
          /\ new_context'.stepCount # new_context.stepCount =>
                 /\ pc = "step"
                 /\ new_context'.positions.steps
                        = new_context.positions.steps
                              + (new_context'.stepCount - new_context.stepCount)
                 /\ context' = context]_vars

C18_Witness ==
    /\ nb = "ADP"
    /\ pc = "for"
    /\ x = 2
    /\ dcd_file.frames[2].steps - dcd_file.frames[1].steps = STEPS_ADP
    /\ dcd_file.frames[2] = new_context.positions
    /\ new_context.stepCount = 2 * STEPS_ADP
    /\ context.stepCount = 0
    /\ integrator.context = "new_context"

----------------------------------------------------------------------------
(* The restraint and the region.                                           *)

\* the particle indices the bonds of a CustomBondForce refer to
BondParticles(f) ==
    {f.bonds[i].atom1 : i \in 1..Len(f.bonds)}
        \cup {f.bonds[i].atom2 : i \in 1..Len(f.bonds)}

\* the particle with this index is one of the atoms
HoldsParticle(atoms, index) == \E i \in 1..Len(atoms) : atoms[i].idx = index

\* C19: in the notebook that binds the engine to the region string, the
\* particles the restraint bonds refer to are 2125, 2094, 2119 and 2087,
\* and each of them is an atom of the region: particle index i is the atom
\* numbered i + 1, and 2126, 2095, 2120 and 2088 all lie in 2083..2132.
C19_RestrainedAtomsInRegion ==
    (nb = "AbyU_QMMM" /\ engine.bound) =>
        /\ BondParticles(restraint_force.cv) = {2125, 2094, 2119, 2087}
        /\ \A index \in BondParticles(restraint_force.cv) :
               /\ HoldsParticle(engine.atoms, index)
               /\ \A i \in 1..Len(engine.atoms) :
                      engine.atoms[i].idx = index =>
                          /\ engine.atoms[i].num = index + 1
                          /\ engine.atoms[i].num \in 2083..2132
        /\ new_context.exists =>
               BondParticles(RestraintOf(new_context).cv)
                   = BondParticles(restraint_force.cv)

C19_Witness ==
    /\ nb = "AbyU_QMMM"
    /\ pc = "step"
    /\ engine.bound
    /\ 2125 \in BondParticles(RestraintOf(new_context).cv)
    /\ HoldsParticle(engine.atoms, 2125)
    /\ HoldsParticle(engine.atoms, 2087)
    /\ ~HoldsParticle(engine.atoms, 2132)

====
